---- MODULE Spec2Model ----
(***************************************************************************)
(* State-machine model of the two backends of the repository:             *)
(*   BlogAPI      (src/BlogAPI/main.py, blog_crud.py, models.py)           *)
(*   FastAPICRUD  (src/FastAPICRUD/main.py, crud.py, models.py)            *)
(* Every HTTP handler is an action.  signup is split at its storage round  *)
(* trips (username pre-check, email pre-check, commit) so that concurrent  *)
(* requests interleave the way thread-per-request handling lets them.      *)
(***************************************************************************)
EXTENDS Integers, Sequences, FiniteSets, TLC

VARIABLES users, reqs, blogs, nextId, deletedBlogs, signedUp, resp,
          fusers, fcreated

vars == <<users, reqs, blogs, nextId, deletedBlogs, signedUp, resp,
          fusers, fcreated>>

authVars == <<users, reqs, signedUp>>
blogVars == <<blogs, deletedBlogs>>
crudVars == <<fusers, fcreated>>

(* ------------------------------ bounds -------------------------------- *)
MaxIds == 5        \* uuid4 values drawn during one run
MaxLimit == 3      \* largest limit / start tried by get_blogs
MaxClock == 1      \* instants at which a login may be served

(* --------------------------- program constants ------------------------ *)
AccessTokenExpireMinutes == 30

Requests == {"r1", "r2"}
Usernames == {"alice", "bob"}
Emails == {"a@x", "b@x"}
Passwords == {"pw1", "pw2"}
Salts == {"s1", "s2"}
FullNames == {"None"}
Titles == {"t"}
Bodies == {"b"}

(* ------------------------- identifiers on the wire -------------------- *)
\* A path identifier is a string.  It is modelled by its form and the
\* number it spells: the canonical 8-4-4-4-12 text of a UUID, the same
\* UUID as 32 bare hex digits, a decimal integer, or text that is neither.
WireForms == {"canon", "hex32", "int", "junk"}
WireIds == [form : WireForms, n : 1..MaxIds]

\* str(uuid): the canonical text
UuidStr(u) == [form |-> "canon", n |-> u]

\* uuid.UUID(s): the UUID spelled by s, or ValueError
ValueError == 0
UUID(s) == IF s.form \in {"canon", "hex32"} THEN s.n ELSE ValueError

(* ------------------------------ BlogAPI: users ------------------------ *)
None == "None"

\* models.User row (created_at carries no behaviour and is left out)
UserRow(id, username, email, full_name, hashed_password, is_active) ==
    [id |-> id, username |-> username, email |-> email,
     full_name |-> full_name, hashed_password |-> hashed_password,
     is_active |-> is_active]

\* a response model that forgets to drop the hash
UserResponse_WithHash(row) ==
    [id |-> UuidStr(row.id), username |-> row.username, email |-> row.email,
     full_name |-> row.full_name, is_active |-> row.is_active,
     hashed_password |-> row.hashed_password]

\* schemas.UserResponse built from a row (orm_mode): the declared fields only
UserResponse(row) ==
    [id |-> UuidStr(row.id), username |-> row.username, email |-> row.email,
     full_name |-> row.full_name, is_active |-> row.is_active]

\* FastAPI's body for a raised HTTPException
HTTPException(detail) == [detail |-> detail]

\* Credential Hasher: a salted digest that embeds its salt
get_password_hash(password, salt) ==
    [fmt |-> "bcrypt", salt |-> salt, digest |-> <<salt, password>>]

MalformedHash == [fmt |-> "bad", salt |-> "s1", digest |-> <<"s1", "">>]

verify_password(plain, hashed) ==
    /\ hashed.fmt = "bcrypt"
    /\ hashed.digest = <<hashed.salt, plain>>

\* Token Issuer: binds the subject and the absolute expiry
create_access_token(data, expires_delta, issued_at) ==
    [sub |-> data.sub, exp |-> issued_at + expires_delta]

\* query(...).filter(...).first(): the first of the matching row indexes,
\* 0 if none
First(matching) ==
    IF matching = {} THEN 0
    ELSE CHOOSE i \in matching : \A j \in matching : i <= j

\* Identity Lookup
get_user_by_username(db, username) ==
    First({k \in 1..Len(db) : db[k].username = username})

get_user_by_email(db, email) ==
    First({k \in 1..Len(db) : db[k].email = email})

\* columns declared without unique=True
IntegrityError_NoConstraint(db, row) == FALSE

\* unique=True on users.username and users.email, enforced at INSERT
IntegrityError(db, row) ==
    \E i \in 1..Len(db) :
        db[i].username = row.username \/ db[i].email = row.email

\* Tables the process may find in the database when it starts
InitialUsers ==
    { <<>>,
      <<UserRow(1, "alice", "a@x", None,
                get_password_hash("pw1", "s1"), FALSE)>>,
      <<UserRow(1, "bob", "b@x", None, MalformedHash, TRUE)>> }

\* the response of one finished request
Response(op, arg, at, status, body, storage) ==
    [op |-> op, arg |-> arg, at |-> at, status |-> status, body |-> body,
     storage |-> storage]

IdleReq ==
    [pc |-> "idle", username |-> "alice", email |-> "a@x", full_name |-> None,
     password |-> "pw1", alone |-> FALSE]

InFlight(r) == reqs[r].pc \in {"checkEmail", "commit"}

\* a request that starts while others are in flight is no longer alone,
\* and neither are they
Overlap(r, started) ==
    [q \in Requests |->
        IF q = r THEN started
        ELSE IF InFlight(q) THEN [reqs[q] EXCEPT !.alone = FALSE]
        ELSE reqs[q]]

\* what the client of request r sent, and whether r overlapped another signup
SignupArg(r, user) ==
    [req |-> r, username |-> user.username, email |-> user.email,
     full_name |-> user.full_name, password |-> user.password,
     alone |-> user.alone]

\* signup, up to the username pre-check (main.py 52-55)
SignupCheckUsername(r) ==
    /\ reqs[r].pc = "idle"
    /\ \E username \in Usernames, email \in Emails,
          full_name \in FullNames, password \in Passwords :
         LET alone == \A q \in Requests \ {r} : ~InFlight(q)
             user == [pc |-> "checkEmail", username |-> username,
                      email |-> email, full_name |-> full_name,
                      password |-> password, alone |-> alone]
         IN IF get_user_by_username(users, username) # 0
            THEN /\ reqs' = Overlap(r, IdleReq)
                 /\ resp' = Response("signup", SignupArg(r, user), 0, 400,
                        HTTPException("Username already registered"), TRUE)
            ELSE /\ reqs' = Overlap(r, user)
                 /\ resp' = resp
    /\ UNCHANGED <<users, signedUp, nextId, blogVars, crudVars>>

\* signup, the email pre-check (main.py 57-59)
SignupCheckEmail(r) ==
    /\ reqs[r].pc = "checkEmail"
    /\ IF get_user_by_email(users, reqs[r].email) # 0
       THEN /\ reqs' = [reqs EXCEPT ![r] = IdleReq]
            /\ resp' = Response("signup", SignupArg(r, reqs[r]), 0, 400,
                   HTTPException("Email already registered"), TRUE)
       ELSE /\ reqs' = [reqs EXCEPT ![r].pc = "commit"]
            /\ resp' = resp
    /\ UNCHANGED <<users, signedUp, nextId, blogVars, crudVars>>

\* a commit whose IntegrityError is not caught
SignupCommit_Uncaught(r) ==
    /\ reqs[r].pc = "commit"
    /\ nextId <= MaxIds
    /\ \E salt \in Salts :
         LET db_user == UserRow(nextId, reqs[r].username, reqs[r].email,
                                reqs[r].full_name,
                                get_password_hash(reqs[r].password, salt),
                                TRUE)
         IN IF IntegrityError(users, db_user)
            THEN /\ UNCHANGED <<users, signedUp, nextId>>
                 /\ resp' = Response("signup", SignupArg(r, reqs[r]), 0, 500,
                        HTTPException("Internal Server Error"), TRUE)
            ELSE /\ users' = Append(users, db_user)
                 /\ nextId' = nextId + 1
                 /\ signedUp' = signedUp \cup
                                  {<<reqs[r].username, reqs[r].password>>}
                 /\ resp' = Response("signup", SignupArg(r, reqs[r]), 0, 200,
                        UserResponse(db_user), TRUE)
    /\ reqs' = [reqs EXCEPT ![r] = IdleReq]
    /\ UNCHANGED <<blogVars, crudVars>>

\* signup, hash + add + commit + refresh, or rollback (main.py 61-75)
SignupCommit(r) ==
    /\ reqs[r].pc = "commit"
    /\ nextId <= MaxIds
    /\ \E salt \in Salts :
         LET db_user == UserRow(nextId, reqs[r].username, reqs[r].email,
                                reqs[r].full_name,
                                get_password_hash(reqs[r].password, salt),
                                TRUE)
         IN IF IntegrityError(users, db_user)
            THEN /\ UNCHANGED <<users, signedUp, nextId>>
                 /\ resp' = Response("signup", SignupArg(r, reqs[r]), 0, 400,
                        HTTPException("Username or Email already exists"),
                        TRUE)
            ELSE /\ users' = Append(users, db_user)
                 /\ nextId' = nextId + 1
                 /\ signedUp' = signedUp \cup
                                  {<<reqs[r].username, reqs[r].password>>}
                 /\ resp' = Response("signup", SignupArg(r, reqs[r]), 0, 200,
                        UserResponse(db_user), TRUE)
    /\ reqs' = [reqs EXCEPT ![r] = IdleReq]
    /\ UNCHANGED <<blogVars, crudVars>>

\* a login that tells an unknown username from a wrong password
LoginResponse_Enumerating(db, request, issued_at) ==
    LET i == get_user_by_username(db, request.username) IN
    IF i = 0
    THEN Response("login", request, issued_at, 404,
                  HTTPException("User not found"), TRUE)
    ELSE IF ~verify_password(request.password, db[i].hashed_password)
    THEN Response("login", request, issued_at, 401,
                  HTTPException("Invalid username or password"), TRUE)
    ELSE IF ~db[i].is_active
    THEN Response("login", request, issued_at, 403,
                  HTTPException("Inactive user"), TRUE)
    ELSE Response("login", request, issued_at, 200,
                  [access_token |->
                      create_access_token([sub |-> UuidStr(db[i].id)],
                                          AccessTokenExpireMinutes, issued_at),
                   token_type |-> "bearer"], TRUE)

\* a login that checks the active flag before the password
LoginResponse_ActiveFirst(db, request, issued_at) ==
    LET i == get_user_by_username(db, request.username) IN
    IF i = 0
    THEN Response("login", request, issued_at, 401,
                  HTTPException("Invalid username or password"), TRUE)
    ELSE IF ~db[i].is_active
    THEN Response("login", request, issued_at, 403,
                  HTTPException("Inactive user"), TRUE)
    ELSE IF ~verify_password(request.password, db[i].hashed_password)
    THEN Response("login", request, issued_at, 401,
                  HTTPException("Invalid username or password"), TRUE)
    ELSE Response("login", request, issued_at, 200,
                  [access_token |->
                      create_access_token([sub |-> UuidStr(db[i].id)],
                                          AccessTokenExpireMinutes, issued_at),
                   token_type |-> "bearer"], TRUE)

\* a login whose token subject is user.id.hex instead of str(user.id)
LoginResponse_HexSubject(db, request, issued_at) ==
    LET i == get_user_by_username(db, request.username) IN
    IF i = 0
    THEN Response("login", request, issued_at, 401,
                  HTTPException("Invalid username or password"), TRUE)
    ELSE IF ~verify_password(request.password, db[i].hashed_password)
    THEN Response("login", request, issued_at, 401,
                  HTTPException("Invalid username or password"), TRUE)
    ELSE IF ~db[i].is_active
    THEN Response("login", request, issued_at, 403,
                  HTTPException("Inactive user"), TRUE)
    ELSE Response("login", request, issued_at, 200,
                  [access_token |->
                      create_access_token(
                          [sub |-> [form |-> "hex32", n |-> db[i].id]],
                          AccessTokenExpireMinutes, issued_at),
                   token_type |-> "bearer"], TRUE)

\* login (main.py 78-94), served at instant issued_at
LoginResponse(db, request, issued_at) ==
    LET i == get_user_by_username(db, request.username) IN
    IF i = 0
    THEN Response("login", request, issued_at, 401,
                  HTTPException("Invalid username or password"), TRUE)
    ELSE IF ~verify_password(request.password, db[i].hashed_password)
    THEN Response("login", request, issued_at, 401,
                  HTTPException("Invalid username or password"), TRUE)
    ELSE IF ~db[i].is_active
    THEN Response("login", request, issued_at, 403,
                  HTTPException("Inactive user"), TRUE)
    ELSE Response("login", request, issued_at, 200,
                  [access_token |->
                      create_access_token([sub |-> UuidStr(db[i].id)],
                                          AccessTokenExpireMinutes, issued_at),
                   token_type |-> "bearer"], TRUE)

LoginRequests == [username : Usernames, password : Passwords]

login ==
    /\ \E request \in LoginRequests, issued_at \in 0..MaxClock :
         resp' = LoginResponse(users, request, issued_at)
    /\ UNCHANGED <<authVars, nextId, blogVars, crudVars>>

\* get_user (main.py 97-106)
GetUserResponse(db, user_id) ==
    LET user_uuid == UUID(user_id)
        i == First({k \in 1..Len(db) : db[k].id = user_uuid})
    IN IF user_uuid = ValueError
       THEN Response("get_user", user_id, 0, 400,
                     HTTPException("Invalid blog_id format"), FALSE)
       ELSE IF i = 0
       THEN Response("get_user", user_id, 0, 404,
                     HTTPException("Blog not found"), TRUE)
       ELSE Response("get_user", user_id, 0, 200, UserResponse(db[i]), TRUE)

get_user ==
    /\ \E user_id \in WireIds : resp' = GetUserResponse(users, user_id)
    /\ UNCHANGED <<authVars, nextId, blogVars, crudVars>>

(* ------------------------------ BlogAPI: blogs ------------------------ *)
\* models.Blog row (created_at and created_by are never set by a handler)
BlogRow(id, title, body, published) ==
    [id |-> id, title |-> title, body |-> body, published |-> published]

\* schemas.BlogResponse and schemas.BlogBase built from a row
BlogResponse(row) ==
    [id |-> UuidStr(row.id), title |-> row.title, body |-> row.body,
     published |-> row.published]

BlogBase(row) ==
    [title |-> row.title, body |-> row.body, published |-> row.published]

\* .filter(models.Blog.published == published)
RECURSIVE FilterPublished(_, _)
FilterPublished(rows, published) ==
    IF rows = <<>> THEN <<>>
    ELSE IF Head(rows).published = published
         THEN <<Head(rows)>> \o FilterPublished(Tail(rows), published)
         ELSE FilterPublished(Tail(rows), published)

\* .offset(k): drop the first k rows
RECURSIVE Offset(_, _)
Offset(rows, k) ==
    IF k = 0 \/ rows = <<>> THEN rows ELSE Offset(Tail(rows), k - 1)

\* .limit(k): keep the first k rows
RECURSIVE Limit(_, _)
Limit(rows, k) ==
    IF k = 0 \/ rows = <<>> THEN <<>>
    ELSE <<Head(rows)>> \o Limit(Tail(rows), k - 1)

\* .offset(start) in place of .offset(start - 1)
crud_get_blogs_OffByOne(db, limit, start, published) ==
    Limit(Offset(FilterPublished(db, published), start), limit)

\* blog_crud.get_blogs; the table is scanned in insertion order
crud_get_blogs(db, limit, start, published) ==
    Limit(Offset(FilterPublished(db, published), start - 1), limit)

\* blog_crud.get_blog: index of the row, 0 if none
crud_get_blog(db, blog_id) ==
    First({k \in 1..Len(db) : db[k].id = blog_id})

\* a delete that removes the first row of the table
DeleteRow_First(rows, i) == Tail(rows)

\* db.delete(blog); db.commit()
RECURSIVE DeleteRow(_, _)
DeleteRow(rows, i) ==
    IF rows = <<>> THEN <<>>
    ELSE IF i = 1 THEN Tail(rows)
    ELSE <<Head(rows)>> \o DeleteRow(Tail(rows), i - 1)

\* POST /blog/create/ (main.py 16-18, blog_crud.py 15-24)
create_blog ==
    /\ nextId <= MaxIds
    /\ \E title \in Titles, body \in Bodies, published \in BOOLEAN :
         LET db_blog == BlogRow(nextId, title, body, published) IN
         /\ blogs' = Append(blogs, db_blog)
         /\ resp' = Response("create_blog", BlogBase(db_blog), 0, 201,
                             BlogResponse(db_blog), TRUE)
    /\ nextId' = nextId + 1
    /\ UNCHANGED <<deletedBlogs, authVars, crudVars>>

MapBlogResponse(rows) == [i \in 1..Len(rows) |-> BlogResponse(rows[i])]

\* GET /blogs/ (main.py 21-23) for limit >= 0 and start >= 1
get_blogs ==
    /\ \E limit \in 0..MaxLimit, start \in 1..MaxLimit, published \in BOOLEAN :
         resp' = Response("get_blogs",
                    [limit |-> limit, start |-> start,
                     published |-> published], 0, 200,
                    MapBlogResponse(
                        crud_get_blogs(blogs, limit, start, published)), TRUE)
    /\ UNCHANGED <<blogVars, nextId, authVars, crudVars>>

\* GET /blog/{blog_id}/ (main.py 26-35)
GetBlogResponse(db, blog_id) ==
    LET blog_uuid == UUID(blog_id)
        i == crud_get_blog(db, blog_uuid)
    IN IF blog_uuid = ValueError
       THEN Response("get_blog", blog_id, 0, 400,
                     HTTPException("Invalid blog_id format"), FALSE)
       ELSE IF i = 0
       THEN Response("get_blog", blog_id, 0, 404,
                     HTTPException("Blog not found"), TRUE)
       ELSE Response("get_blog", blog_id, 0, 200, BlogBase(db[i]), TRUE)

get_blog ==
    /\ \E blog_id \in WireIds : resp' = GetBlogResponse(blogs, blog_id)
    /\ UNCHANGED <<blogVars, nextId, authVars, crudVars>>

\* DELETE /blog/delete/{blog_id}/ (main.py 38-47, blog_crud.py 27-33)
delete_blog ==
    /\ \E blog_id \in WireIds :
         LET blog_uuid == UUID(blog_id)
             i == crud_get_blog(blogs, blog_uuid)
         IN IF blog_uuid = ValueError
            THEN /\ resp' = Response("delete_blog", blog_id, 0, 400,
                        HTTPException("Invalid blog_id format"), FALSE)
                 /\ UNCHANGED blogVars
            ELSE IF i = 0
            THEN /\ resp' = Response("delete_blog", blog_id, 0, 404,
                        HTTPException("Blog not found"), TRUE)
                 /\ UNCHANGED blogVars
            ELSE /\ blogs' = DeleteRow(blogs, i)
                 /\ deletedBlogs' = deletedBlogs \cup {blog_uuid}
                 /\ resp' = Response("delete_blog", blog_id, 0, 200,
                        [message |-> "Blog deleted successfully"], TRUE)
    /\ UNCHANGED <<nextId, authVars, crudVars>>

(* ------------------------------ FastAPICRUD --------------------------- *)
Names == {"n"}
Genders == {"female"}
Roles == {"user"}

\* FastAPICRUD models.User row
CrudUserRow(id, name, email, gender, role) ==
    [id |-> id, name |-> name, email |-> email, gender |-> gender,
     role |-> role]

\* FastAPICRUD schemas.UserResponse built from a row
CrudUserResponse(row) ==
    [id |-> UuidStr(row.id), name |-> row.name, email |-> row.email,
     gender |-> row.gender, role |-> row.role]

\* unique=True on users.email
CrudIntegrityError(db, row) == \E i \in 1..Len(db) : db[i].email = row.email

\* POST /users/ (main.py 24-26, crud.py 15-25); an IntegrityError raised by
\* commit is not caught and leaves as 500
create_user ==
    /\ nextId <= MaxIds
    /\ \E name \in Names, email \in Emails, gender \in Genders, role \in Roles :
         LET db_user == CrudUserRow(nextId, name, email, gender, role)
             arg == [name |-> name, email |-> email, gender |-> gender,
                     role |-> role]
         IN IF CrudIntegrityError(fusers, db_user)
            THEN /\ UNCHANGED <<fusers, fcreated, nextId>>
                 /\ resp' = Response("create_user", arg, 0, 500,
                        HTTPException("Internal Server Error"), TRUE)
            ELSE /\ fusers' = Append(fusers, db_user)
                 /\ fcreated' = fcreated \cup {UuidStr(nextId)}
                 /\ nextId' = nextId + 1
                 /\ resp' = Response("create_user", arg, 0, 200,
                        CrudUserResponse(db_user), TRUE)
    /\ UNCHANGED <<authVars, blogVars>>

\* crud.get_user / crud.delete_user's query with the key the handler passes:
\* a str or an int, never a UUID.  The key is bound as its text and a row
\* matches when its id has that text; index of the row, 0 if none
crud_get_user(db, user_id) ==
    First({k \in 1..Len(db) : UuidStr(db[k].id) = user_id})

\* GET /users/{user_id} (main.py 32-37): the path string goes to the query
\* as it is.  The UUID column type may also refuse to bind a key that is not
\* a UUID, which leaves as 500
read_user ==
    /\ \E user_id \in WireIds, refused \in BOOLEAN :
         LET i == crud_get_user(fusers, user_id) IN
         IF refused
         THEN resp' = Response("read_user", user_id, 0, 500,
                         HTTPException("Internal Server Error"), TRUE)
         ELSE IF i = 0
         THEN resp' = Response("read_user", user_id, 0, 404,
                         HTTPException("User not found"), TRUE)
         ELSE resp' = Response("read_user", user_id, 0, 200,
                         CrudUserResponse(fusers[i]), TRUE)
    /\ UNCHANGED <<crudVars, nextId, authVars, blogVars>>

\* user_id: int -- FastAPI parses the path string as an integer
ParseInt(s) == IF s.form = "int" THEN s.n ELSE ValueError

\* str(k) of an integer k
IntStr(k) == [form |-> "int", n |-> k]

\* DELETE /users/{user_id} (main.py 39-44, crud.py 28-34): a path string that
\* is not an integer is refused with 422 before the handler runs; an integer
\* is looked up as the id
delete_user ==
    /\ \E user_id \in WireIds, refused \in BOOLEAN :
         LET key == ParseInt(user_id)
             i == crud_get_user(fusers, IntStr(key))
         IN IF key = ValueError
            THEN /\ resp' = Response("delete_user", user_id, 0, 422,
                        HTTPException("value is not a valid integer"), FALSE)
                 /\ UNCHANGED crudVars
            ELSE IF refused
            THEN /\ resp' = Response("delete_user", user_id, 0, 500,
                        HTTPException("Internal Server Error"), TRUE)
                 /\ UNCHANGED crudVars
            ELSE IF i = 0
            THEN /\ resp' = Response("delete_user", user_id, 0, 404,
                        HTTPException("User not found"), TRUE)
                 /\ UNCHANGED crudVars
            ELSE /\ fusers' = DeleteRow(fusers, i)
                 /\ fcreated' = fcreated
                 /\ resp' = Response("delete_user", user_id, 0, 200,
                        [message |-> "User deleted successfully"], TRUE)
    /\ UNCHANGED <<nextId, authVars, blogVars>>

\* GET /users/ (main.py 28-30, crud.py 7-8)
read_users ==
    /\ resp' = Response("read_users", 0, 0, 200,
                   [i \in 1..Len(fusers) |-> CrudUserResponse(fusers[i])],
                   TRUE)
    /\ UNCHANGED <<crudVars, nextId, authVars, blogVars>>

NoResponse == Response("none", 0, 0, 0, HTTPException(""), FALSE)

Init ==
    /\ users \in InitialUsers
    /\ reqs = [r \in Requests |-> IdleReq]
    /\ blogs = <<>>
    /\ nextId = 2
    /\ deletedBlogs = {}
    /\ signedUp = {}
    /\ resp = NoResponse
    /\ fusers = <<>>
    /\ fcreated = {}

NextAuth ==
    \/ \E r \in Requests : SignupCheckUsername(r)
    \/ \E r \in Requests : SignupCheckEmail(r)
    \/ \E r \in Requests : SignupCommit(r)
    \/ login
    \/ get_user

SpecAuth == Init /\ [][NextAuth]_vars

NextBlog ==
    \/ create_blog
    \/ get_blogs
    \/ get_blog
    \/ delete_blog

SpecBlog == Init /\ [][NextBlog]_vars

NextCrud ==
    \/ create_user
    \/ read_users
    \/ read_user
    \/ delete_user

SpecCrud == Init /\ [][NextCrud]_vars

\* the endpoints that take an identifier from the path, with the creates
NextIds ==
    \/ create_blog
    \/ get_blog
    \/ delete_blog
    \/ get_user
    \/ create_user
    \/ read_user
    \/ delete_user

SpecIds == Init /\ [][NextIds]_vars

Next == NextAuth \/ NextBlog \/ NextCrud

Spec == Init /\ [][Next]_vars

(* ============================== properties ============================ *)
UsernameStored(db, username) == \E i \in 1..Len(db) : db[i].username = username
EmailStored(db, email) == \E i \in 1..Len(db) : db[i].email = email

\* request r returns its response in this step
Finishes(r) ==
    /\ resp'.op = "signup"
    /\ resp'.arg.req = r
    /\ reqs'[r].pc = "idle"
    /\ reqs[r].pc # "idle" \/ resp' # resp

\* this step is the handler op returning a response
Returns(op) == resp'.op = op /\ (resp' # resp \/ blogs' # blogs)

\* C1: in every reachable state, whatever the interleaving of signups, no two
\* stored users share a username and no two share an email.
C1_UniqueUsernameAndEmail ==
    \A i, j \in 1..Len(users) :
        i # j => /\ users[i].username # users[j].username
                 /\ users[i].email # users[j].email

\* two users are stored and a signup has just lost a race at commit
C1_Witness ==
    /\ Len(users) = 2
    /\ resp.op = "signup"
    /\ resp.status = 400
    /\ resp.body.detail = "Username or Email already exists"

\* C2: a signup that overlaps no other signup fails with 400 when its
\* username is stored, fails with 400 when its username is new and its email
\* is stored, both without changing the stored users; otherwise it succeeds,
\* appends exactly one row, and returns the public view without the hash.
C2_SequentialSignup ==
    [][\A r \in Requests :
         (Finishes(r) /\ resp'.arg.alone) =>
           LET a == resp'.arg IN
           IF UsernameStored(users, a.username)
           THEN resp'.status = 400 /\ users' = users
           ELSE IF EmailStored(users, a.email)
           THEN resp'.status = 400 /\ users' = users
           ELSE /\ resp'.status = 200
                /\ Len(users') = Len(users) + 1
                /\ SubSeq(users', 1, Len(users)) = users
                /\ users'[Len(users')].username = a.username
                /\ users'[Len(users')].email = a.email
                /\ DOMAIN resp'.body =
                     {"id", "username", "email", "full_name", "is_active"}
                /\ resp'.body.username = a.username
                /\ resp'.body.email = a.email
                /\ resp'.body.id = UuidStr(users'[Len(users')].id)]_vars

\* after a successful signup, a signup on its own was refused for its email
C2_Witness ==
    /\ signedUp # {}
    /\ resp.op = "signup"
    /\ resp.arg.alone
    /\ resp.status = 400
    /\ resp.body.detail = "Email already registered"

\* C3: a signup that reaches commit after a rival stored its username or its
\* email gets 400 with the conflict detail, not a storage error, and stores
\* nothing; one that reaches commit first is stored, and from then on every
\* rival still waiting to commit the same username or email is bound to lose:
\* of two racing requests exactly one is stored.
C3_CommitRace ==
    [][\A r \in Requests :
         (reqs[r].pc = "commit" /\ Finishes(r)) =>
           LET u == reqs[r].username
               e == reqs[r].email
           IN IF UsernameStored(users, u) \/ EmailStored(users, e)
              THEN /\ resp'.status = 400
                   /\ resp'.body = [detail |-> "Username or Email already exists"]
                   /\ users' = users
              ELSE /\ resp'.status = 200
                   /\ Len(users') = Len(users) + 1
                   /\ users'[Len(users')].username = u
                   /\ users'[Len(users')].email = e
                   /\ \A q \in Requests \ {r} :
                        (/\ reqs[q].pc = "commit"
                         /\ reqs[q].username = u \/ reqs[q].email = e)
                        => /\ reqs'[q].pc = "commit"
                           /\ \/ UsernameStored(users', reqs'[q].username)
                              \/ EmailStored(users', reqs'[q].email)]_vars

\* a signup that passed both pre-checks lost at commit
C3_Witness ==
    /\ resp.op = "signup"
    /\ ~resp.arg.alone
    /\ resp.status = 400
    /\ resp.body.detail = "Username or Email already exists"
    /\ UsernameStored(users, resp.arg.username)
    /\ ~EmailStored(users, resp.arg.email)

\* the login request names no stored user, or its password does not verify
LoginFails(db, request) ==
    \A i \in 1..Len(db) :
        db[i].username = request.username
        => ~verify_password(request.password, db[i].hashed_password)

\* C4: a login with an unknown username and a login with a known username
\* and a wrong password get the same status, 401, and the same detail,
\* whether or not the user is active.
C4_LoginFailuresIdentical ==
    [][(Returns("login") /\ LoginFails(users, resp'.arg)) =>
         /\ resp'.status = 401
         /\ \A other \in LoginRequests :
              LoginFails(users, other) =>
                LET r == LoginResponse(users, other, resp'.at) IN
                /\ r.status = resp'.status
                /\ r.body = resp'.body]_vars

\* a wrong password for a stored, inactive user was refused with 401 while
\* another username is not registered
C4_Witness ==
    /\ resp.op = "login"
    /\ resp.status = 401
    /\ \E i \in 1..Len(users) :
         users[i].username = resp.arg.username /\ ~users[i].is_active
    /\ \E name \in Usernames : ~UsernameStored(users, name)

\* C5: login for an inactive user gets 403 and no token when the password
\* verifies, and 401 when it does not.
C5_InactiveAfterPassword ==
    [][Returns("login") =>
         \A i \in 1..Len(users) :
            (users[i].username = resp'.arg.username /\ ~users[i].is_active)
            => IF verify_password(resp'.arg.password, users[i].hashed_password)
               THEN /\ resp'.status = 403
                    /\ "access_token" \notin DOMAIN resp'.body
               ELSE resp'.status = 401]_vars

\* an inactive user gave the right password and was refused with 403
C5_Witness ==
    /\ resp.op = "login"
    /\ resp.status = 403
    /\ \E i \in 1..Len(users) :
         /\ users[i].username = resp.arg.username
         /\ ~users[i].is_active
         /\ verify_password(resp.arg.password, users[i].hashed_password)

\* the rows of db whose id is not id, in order
Without(db, id) == LET Keep(row) == row.id # id IN SelectSeq(db, Keep)

\* C6: deleting an id no blog has gets 404 and changes nothing; deleting the
\* id of a stored blog removes that blog only; from then on get and delete
\* of that id get 404, and no later create brings the id back.
C6_DeleteBlog ==
    [][/\ (Returns("delete_blog") /\ UUID(resp'.arg) # ValueError) =>
            IF \E i \in 1..Len(blogs) : blogs[i].id = UUID(resp'.arg)
            THEN /\ resp'.status = 200
                 /\ blogs' = Without(blogs, UUID(resp'.arg))
                 /\ Len(blogs') = Len(blogs) - 1
            ELSE /\ resp'.status = 404
                 /\ blogs' = blogs
       /\ ((Returns("get_blog") \/ Returns("delete_blog"))
            /\ UUID(resp'.arg) \in deletedBlogs) => resp'.status = 404
       /\ \A i \in 1..Len(blogs') : blogs'[i].id \notin deletedBlogs']_vars

\* a get of a deleted blog got 404 while other blogs are still stored
C6_Witness ==
    /\ resp.op = "get_blog"
    /\ UUID(resp.arg) \in deletedBlogs
    /\ resp.status = 404
    /\ Len(blogs) >= 2

Min(a, b) == IF a < b THEN a ELSE b
Max(a, b) == IF a > b THEN a ELSE b

\* C7: for limit >= 0 and start >= 1, get_blogs returns at most limit blogs,
\* all with the requested published flag: the blogs at positions
\* start .. start+limit-1 of the stored blogs with that flag, in insertion
\* order.
C7_GetBlogsWindow ==
    [][Returns("get_blogs") =>
         LET a == resp'.arg
             out == resp'.body
             Wanted(row) == row.published = a.published
             F == SelectSeq(blogs, Wanted)
         IN /\ Len(out) <= a.limit
            /\ Len(out) = Max(0, Min(a.limit, Len(F) - a.start + 1))
            /\ \A k \in 1..Len(out) :
                 /\ out[k].published = a.published
                 /\ out[k].id = UuidStr(F[a.start + k - 1].id)
                 /\ out[k].title = F[a.start + k - 1].title
                 /\ out[k].body = F[a.start + k - 1].body]_vars

\* of four blogs, the second unpublished, the second published one was
\* returned alone for limit 1, start 2
C7_Witness ==
    /\ Len(blogs) = 4
    /\ ~blogs[2].published
    /\ blogs[1].published /\ blogs[3].published /\ blogs[4].published
    /\ resp.op = "get_blogs"
    /\ resp.arg = [limit |-> 1, start |-> 2, published |-> TRUE]
    /\ resp.body = <<BlogResponse(blogs[3])>>

IdOps == {"get_blog", "delete_blog", "get_user", "read_user", "delete_user"}

\* C8: every endpoint that takes an identifier from the path refuses text
\* that is not a UUID with 400, before any storage call, and changes nothing.
C8_MalformedIdRejected ==
    [][(resp'.op \in IdOps /\ resp' # resp /\ UUID(resp'.arg) = ValueError) =>
         /\ resp'.status = 400
         /\ ~resp'.storage
         /\ UNCHANGED <<users, blogs, fusers>>]_vars

\* C9: once a signup of (u, p) has succeeded, every later login with (u, p)
\* of an active user gets 200 with token type bearer and a token whose
\* subject is the text of the user's id and whose expiry is the configured
\* number of minutes after issue; login never changes the stored users.
C9_LoginAfterSignup ==
    [][Returns("login") =>
         /\ users' = users
         /\ <<resp'.arg.username, resp'.arg.password>> \in signedUp =>
              \E i \in 1..Len(users) :
                 /\ users[i].username = resp'.arg.username
                 /\ users[i].is_active =>
                      /\ resp'.status = 200
                      /\ resp'.body.token_type = "bearer"
                      /\ resp'.body.access_token.sub =
                           [form |-> "canon", n |-> users[i].id]
                      /\ resp'.body.access_token.exp - resp'.at =
                           AccessTokenExpireMinutes]_vars

\* the first of two signed-up users logged in after the second signed up
C9_Witness ==
    /\ Len(users) = 2
    /\ Cardinality(signedUp) = 2
    /\ resp.op = "login"
    /\ resp.status = 200
    /\ resp.arg.username = users[1].username
    /\ resp.at = MaxClock

\* C10: delete_user with the identifier create_user returned is accepted,
\* removes that user and reports success; delete_user with an identifier no
\* stored user has (a UUID no stored user has) gets 404 and changes nothing.
C10_DeleteCreatedUser ==
    [][(resp'.op = "delete_user" /\ resp' # resp) =>
         IF \E i \in 1..Len(fusers) : UuidStr(fusers[i].id) = resp'.arg
         THEN /\ resp'.arg \in fcreated
              /\ resp'.status = 200
              /\ Len(fusers') = Len(fusers) - 1
              /\ \A i \in 1..Len(fusers') : UuidStr(fusers'[i].id) # resp'.arg
         ELSE UUID(resp'.arg) # ValueError =>
                /\ resp'.status = 404
                /\ fusers' = fusers]_vars

====
